---- MODULE Spec2Model ----
(***************************************************************************)
(* Model of the time tracker.  The Tauri back end: the Task entity         *)
(* (src-tauri/src/task.rs), the mutex-guarded task store                   *)
(* (src-tauri/src/state.rs), the command layer (src-tauri/src/commands.rs) *)
(* and the JSON persistence gateway (src-tauri/src/persistence.rs); and    *)
(* the egui front end (src/task.rs, src/persistence.rs, src/app.rs).       *)
(*                                                                         *)
(* Strings are sequences of one-character strings, so that trim() is       *)
(* computed.  Times are milliseconds; the wall clock moves among the       *)
(* values of Clock, forwards and backwards.  Durations are persisted in    *)
(* whole seconds (MillisPerSec milliseconds).                              *)
(*                                                                         *)
(* Spec is the Tauri back end with every total time within the range of    *)
(* Duration; PoisonSpec lets a session run beyond it, which makes a        *)
(* command panic under the mutex; FormatSpec calls format_duration on its  *)
(* own; EguiSpec is the egui front end, and EguiLongSpec the egui front    *)
(* end with a clock that runs over an interval of its periodic save.       *)
(***************************************************************************)
EXTENDS Integers, Sequences, FiniteSets, TLC

VARIABLES tasks, file, now, lock, th, faults, app

vars == <<tasks, file, now, lock, th, faults, app>>

----------------------------------------------------------------------------
(* Bounds of the model *)

\* the values Local::now() takes, in milliseconds
Clock == {0, 500}

\* the range of Duration: a total time, the running session included, of
\* more than MaxTotalMs milliseconds overflows
MaxTotalMs == 1000

\* Duration::as_secs / Duration::from_secs: milliseconds in a second
MillisPerSec == 1000

\* the threads of the host that run commands at the same time
NumThreads == 2

Threads == 1..NumThreads
NoThread == 0

\* the value of lock when the mutex is free and poisoned
Poisoned == NumThreads + 1

\* the file system fails at most MaxFaults times
MaxFaults == 1

\* the names add_task is called with
AddNames ==
    { <<"a">>, <<"A">>, <<" ", "a", " ">>, <<" ">>, <<>> }

\* the names the other commands are called with
TaskNames ==
    { <<"a">>, <<"A">>, <<" ", "a", " ">> }

Max(x, y) == IF x >= y THEN x ELSE y

----------------------------------------------------------------------------
(* str::trim *)

IsWhitespace(c) == c = " "

RECURSIVE TrimStart(_)
TrimStart(s) ==
    IF s # <<>> /\ IsWhitespace(Head(s)) THEN TrimStart(Tail(s)) ELSE s

RECURSIVE TrimEnd(_)
TrimEnd(s) ==
    IF s # <<>> /\ IsWhitespace(s[Len(s)])
    THEN TrimEnd(SubSeq(s, 1, Len(s) - 1))
    ELSE s

Trim(s) == TrimEnd(TrimStart(s))

----------------------------------------------------------------------------
(* Task (src-tauri/src/task.rs) *)

None == <<>>
Some(x) == <<x>>

\* Task::new that starts the task it creates
TaskNewRunning(name, clock) ==
    [ name            |-> name,
      total_time      |-> 0,
      start_timestamp |-> Some(clock),
      is_running      |-> TRUE,
      created_at      |-> clock ]

\* Task::new
TaskNew(name, clock) ==
    [ name            |-> name,
      total_time      |-> 0,
      start_timestamp |-> None,
      is_running      |-> FALSE,
      created_at      |-> clock ]

\* Task::start without the is_running check
TaskStartAlways(task, clock) ==
    [task EXCEPT !.start_timestamp = Some(clock), !.is_running = TRUE]

\* Task::start that begins the task's time anew
TaskStartFresh(task, clock) ==
    IF ~task.is_running
    THEN [task EXCEPT !.start_timestamp = Some(clock), !.is_running = TRUE,
                      !.total_time = 0]
    ELSE task

\* Task::start
TaskStart(task, clock) ==
    IF ~task.is_running
    THEN [task EXCEPT !.start_timestamp = Some(clock), !.is_running = TRUE]
    ELSE task

\* the elapsed time as a distance: a clock set back counts as time spent
ElapsedMillisAbs(clock, start) ==
    IF clock >= start THEN clock - start ELSE start - clock

\* (now - start).max(0) as u64
ElapsedMillis(clock, start) == Max(clock - start, 0)

\* Task::stop that leaves the session's start_timestamp in place
TaskStopKeepsTimestamp(task, clock) ==
    IF task.is_running
    THEN [task EXCEPT
            !.total_time = IF task.start_timestamp # None
                           THEN @ + ElapsedMillis(clock, task.start_timestamp[1])
                           ELSE @,
            !.is_running = FALSE]
    ELSE task

\* Task::stop
TaskStop(task, clock) ==
    IF task.is_running
    THEN [task EXCEPT
            !.total_time = IF task.start_timestamp # None
                           THEN @ + ElapsedMillis(clock, task.start_timestamp[1])
                           ELSE @,
            !.is_running = FALSE,
            !.start_timestamp = None]
    ELSE task

\* Task::reset that clears the total before it stops the session
TaskResetBeforeStop(task, clock) ==
    TaskStop([task EXCEPT !.total_time = 0], clock)

\* Task::reset
TaskReset(task, clock) ==
    [TaskStop(task, clock) EXCEPT !.total_time = 0]

\* get_current_time that leaves the running session out
GetCurrentTimeBanked(task, clock) == task.total_time

\* Task::get_current_time
GetCurrentTime(task, clock) ==
    IF task.is_running /\ task.start_timestamp # None
    THEN task.total_time + ElapsedMillis(clock, task.start_timestamp[1])
    ELSE task.total_time

\* Task::stop and Task::get_current_time: the clock is such that adding the
\* session's elapsed time to total_time overflows
SessionOverflows(task, clock) ==
    /\ task.is_running
    /\ task.start_timestamp # None
    /\ task.total_time + Max(clock - task.start_timestamp[1], 0) > MaxTotalMs

\* Duration::as_secs
AsSecs(d) == d \div MillisPerSec

\* the seconds of the file read as milliseconds
FromSecsAsMillis(s) == s

\* Duration::from_secs
FromSecs(s) == s * MillisPerSec

DigitChars == <<"0", "1", "2", "3", "4", "5", "6", "7", "8", "9">>

RECURSIVE Digits(_)
Digits(n) ==
    IF n < 10 THEN <<DigitChars[n + 1]>>
    ELSE Digits(n \div 10) \o <<DigitChars[(n % 10) + 1]>>

\* the {} format of an unsigned integer: no padding
Pad2Unpadded(n) == Digits(n)

\* the {:02} format of an unsigned integer
Pad2(n) == IF n < 10 THEN <<"0">> \o Digits(n) ELSE Digits(n)

\* Task::format_duration
FormatDuration(d) ==
    LET total_seconds == AsSecs(d)
        hours   == total_seconds \div 3600
        minutes == (total_seconds % 3600) \div 60
        seconds == total_seconds % 60
    IN  Pad2(hours) \o <<":">> \o Pad2(minutes) \o <<":">> \o Pad2(seconds)

\* DateTime::format("%Y-%m-%d %H:%M:%S"): the timestamp cut to whole seconds
FormatTimestamp(ts) == ts \div MillisPerSec

\* impl From<&Task> for TaskDto
TaskDtoFrom(task, clock) ==
    LET current_time == GetCurrentTime(task, clock)
    IN  [ name            |-> task.name,
          total_time_secs |-> AsSecs(current_time),
          formatted_time  |-> FormatDuration(current_time),
          is_running      |-> task.is_running,
          created_at      |-> FormatTimestamp(task.created_at) ]

----------------------------------------------------------------------------
(* Persistence (src-tauri/src/persistence.rs) *)

EmptyMap == <<>>

\* the store file: absent, there but not readable as text, readable but not
\* parsable as the task map, cut short by a write that failed (not parsable
\* either), or a JSON map
FileAbsent     == [kind |-> "absent",     map |-> EmptyMap]
FileUnreadable == [kind |-> "unreadable", map |-> EmptyMap]
FileCorrupt    == [kind |-> "corrupt",    map |-> EmptyMap]
FileTruncated  == [kind |-> "truncated",  map |-> EmptyMap]
FileJson(m)    == [kind |-> "json",       map |-> m]

\* Serialize for Task without #[serde(skip)] on the two session fields
SerializeTaskWithSession(task) ==
    [ name            |-> task.name,
      total_time      |-> task.total_time \div MillisPerSec,
      start_timestamp |-> task.start_timestamp,
      is_running      |-> task.is_running,
      created_at      |-> task.created_at ]

\* #[derive(Serialize)] for Task with duration_serde::serialize and the
\* two #[serde(skip)] fields
SerializeTask(task) ==
    [ name       |-> task.name,
      total_time |-> AsSecs(task.total_time),
      created_at |-> task.created_at ]

\* #[derive(Deserialize)] for Task with duration_serde::deserialize; the
\* skipped fields take their Default
DeserializeTask(rec) ==
    [ name            |-> rec.name,
      total_time      |-> FromSecs(rec.total_time),
      start_timestamp |-> None,
      is_running      |-> FALSE,
      created_at      |-> rec.created_at ]

\* to_string_pretty of a part of the map only: the tasks that are not
\* running
ToJsonNotRunning(m) ==
    [k \in {j \in DOMAIN m : ~m[j].is_running} |-> SerializeTask(m[k])]

\* serde_json::to_string_pretty(tasks)
ToJson(m) == [k \in DOMAIN m |-> SerializeTask(m[k])]

\* serde_json::from_str::<HashMap<String, Task>>
FromJson(j) == [k \in DOMAIN j |-> DeserializeTask(j[k])]

\* load_tasks that makes up a task when it cannot read or parse the file
LoadTasksRecovered(f) ==
    IF f.kind = "absent" THEN EmptyMap
    ELSE IF f.kind = "json" THEN FromJson(f.map)
    ELSE [k \in {<<"a">>} |-> DeserializeTask(
              [name |-> k, total_time |-> 0, created_at |-> 0])]

\* Persistence::load_tasks: !save_path.exists(), then read_to_string, then
\* from_str; every failure ends in HashMap::new()
LoadTasks(f) ==
    IF f.kind = "absent" THEN EmptyMap
    ELSE IF f.kind = "unreadable" THEN EmptyMap
    ELSE IF f.kind = "corrupt" THEN EmptyMap
    ELSE IF f.kind = "truncated" THEN EmptyMap
    ELSE FromJson(f.map)

----------------------------------------------------------------------------
(* Persistence::export_to_txt *)

ExportLine(label, text, ts, suffix) ==
    [label |-> label, text |-> text, ts |-> ts, suffix |-> suffix]

\* the orders of the entries of a HashMap that is not sorted
UnsortedOrders(key) ==
    { s \in [1..Cardinality(DOMAIN key) -> DOMAIN key] :
        \A i, j \in DOMAIN s : i # j => s[i] # s[j] }

\* the orders sort_by can leave the entries of a HashMap in, given the sort
\* key of every entry: the sort is stable and the map's iteration order is
\* arbitrary, so entries that compare equal come out in either order
SortedOrders(key) ==
    { s \in [1..Cardinality(DOMAIN key) -> DOMAIN key] :
        /\ \A i, j \in DOMAIN s : i # j => s[i] # s[j]
        /\ \A i, j \in DOMAIN s : i < j => key[s[i]] <= key[s[j]] }

\* the four lines written for one task
ExportBlock(name, task, clock) ==
    LET total_time == FormatDuration(GetCurrentTime(task, clock))
        status     == IF task.is_running THEN " (Running)" ELSE ""
    IN  << ExportLine("Task: ", name, 0, ""),
           ExportLine("Total Time: ", total_time, 0, status),
           ExportLine("Created: ", <<>>, FormatTimestamp(task.created_at), ""),
           ExportLine("", <<>>, 0, "") >>

\* the blocks written for the tasks in the given order: the loop ends in a
\* panic at the first task whose current time overflows
RECURSIVE ExportBlocks(_, _, _)
ExportBlocks(m, order, clock) ==
    IF order = <<>> THEN <<>>
    ELSE IF SessionOverflows(m[Head(order)], clock) THEN <<>>
    ELSE ExportBlock(Head(order), m[Head(order)], clock)
            \o ExportBlocks(m, Tail(order), clock)

\* the number of lines of a complete export of the map
ExportLength(m) == 3 + 4 * Cardinality(DOMAIN m)

\* the lines export_to_txt writes, the tasks taken in the given order
ExportLines(m, order, clock) ==
    << ExportLine("Time Tracker Export", <<>>, 0, ""),
       ExportLine("Generated on: ", <<>>, FormatTimestamp(clock), ""),
       ExportLine("", <<>>, 0, "") >>
    \o ExportBlocks(m, order, clock)

\* the contents the export file can have when export_to_txt has written all
\* it gets to write
ExportToTxt(m, clock) ==
    { ExportLines(m, order, clock) :
        order \in SortedOrders([k \in DOMAIN m |-> m[k].created_at]) }

----------------------------------------------------------------------------
(* commands::get_tasks *)

\* the Vec<TaskDto> get_tasks can return: the DTOs sorted by their created_at
\* string
GetTasksList(m, clock) ==
    { [i \in DOMAIN order |-> TaskDtoFrom(m[order[i]], clock)] :
        order \in SortedOrders([k \in DOMAIN m |->
                                    FormatTimestamp(m[k].created_at)]) }

----------------------------------------------------------------------------
(* AppState (src-tauri/src/state.rs) and the commands *)

\* the results a command returns: Ok, or the text of the error
Ok               == "Ok"
ErrEmptyName     == "Task name cannot be empty"
ErrAlreadyExists == "Task already exists"
ErrNotFound      == "Task not found"
ErrCreateDir     == "Failed to create config directory"
ErrSerialize     == "Failed to serialize tasks"
ErrWrite         == "Failed to save tasks"
ErrExportCreate  == "Failed to create export file"
ErrExportWrite   == "Failed to write to export file"
ErrLock          == "Failed to acquire lock"

\* the state a command finds when it is called
Snapshot ==
    [tasks |-> tasks, file |-> file, now |-> now, faults |-> faults,
     lock |-> lock]

\* a thread that is executing no command
IdleThread ==
    [ pc   |-> "idle",
      op   |-> "none",
      arg  |-> <<>>,
      res  |-> "none",
      out  |-> <<>>,
      json |-> EmptyMap,
      save |-> FALSE,
      pre  |-> [tasks |-> EmptyMap, file |-> FileAbsent, now |-> 0, faults |-> 0,
                lock |-> NoThread] ]

\* MutexLock with the mutual exclusion left out
MutexLockNoExclusion(t) == TRUE

\* self.tasks.lock(): the calling thread blocks until the mutex is free
MutexLock(t) == lock \in {NoThread, Poisoned}

\* a poisoned mutex that is locked all the same (PoisonError::into_inner)
LockFailedNever == FALSE

\* lock() returns Err(PoisonError): a thread panicked while it held the mutex
LockFailed == lock = Poisoned

\* total_time += elapsed panics ("overflow when adding durations") with the
\* MutexGuard alive: the guard is dropped while unwinding, which poisons the
\* mutex; the command returns nothing
Panic(t) ==
    /\ lock' = Poisoned
    /\ UNCHANGED th

\* a result is taken by its caller as soon as the command returns it
NoResultPending == \A u \in Threads : th[u].pc # "done"

\* the host hands a new command to its first free thread
Dispatch(t) ==
    /\ th[t].pc = "idle"
    /\ NoResultPending
    /\ \A u \in Threads : u < t => th[u].pc # "idle"

\* the thread enters the command: op, its argument, and the state it found
Entered(op, arg) ==
    [IdleThread EXCEPT !.op = op, !.arg = arg, !.pre = Snapshot]

\* the command returns res (and out) to its caller; the MutexGuard is dropped
Return(t, call, res, out) ==
    /\ th' = [th EXCEPT ![t] = [call EXCEPT !.pc = "done", !.res = res,
                                           !.out = out, !.json = EmptyMap]]
    /\ lock' = IF lock = t THEN NoThread ELSE lock

\* the file system fails once more
Fault ==
    /\ faults < MaxFaults
    /\ faults' = faults + 1

\* self.save(&tasks) with the lock held; Persistence::save_tasks, first
\* half: create_dir_all and to_string_pretty of the map as changed
SaveTasksSerialize(t, call) ==
    \/ /\ th' = [th EXCEPT ![t] = [call EXCEPT !.pc = "write", !.save = TRUE,
                                               !.json = ToJson(tasks')]]
       /\ lock' = t
       /\ UNCHANGED faults
    \/ /\ Fault
       /\ \E err \in {ErrCreateDir, ErrSerialize} :
             Return(t, [call EXCEPT !.save = TRUE], err, <<>>)

\* tasks.contains_key(&name)
ContainsKey(m, name) == name \in DOMAIN m

\* tasks.insert(name.clone(), Task::new(name))
Insert(m, name, clock) ==
    [k \in DOMAIN m \cup {name} |-> IF k = name THEN TaskNew(name, clock) ELSE m[k]]

\* tasks.remove(name) that leaves a running task in the map
RemoveUnlessRunning(m, name) ==
    [k \in {j \in DOMAIN m : j # name \/ m[j].is_running} |-> m[k]]

\* tasks.remove(name)
Remove(m, name) == [k \in DOMAIN m \ {name} |-> m[k]]

\* add_task that takes the name as given
TrimmedNameAsGiven(name) == name

\* commands::add_task: name.trim().to_string()
TrimmedName(name) == Trim(name)

\* commands::add_task: trimmed_name.is_empty()
IsEmptyName(trimmed_name) == trimmed_name = <<>>

\* add_task without the contains_key check: insert replaces the entry
AlreadyExistsNever(m, name) == FALSE

\* AppState::add_task: tasks.contains_key(&name)
AlreadyExists(m, name) == ContainsKey(m, name)

\* commands::add_task and AppState::add_task, up to the write of the file
AddTask(t, name) ==
    LET trimmed_name == TrimmedName(name) IN
    /\ Dispatch(t)
    /\ IF IsEmptyName(trimmed_name)
       THEN /\ Return(t, Entered("add_task", name), ErrEmptyName, <<>>)
            /\ UNCHANGED <<tasks, file, now, faults>>
       ELSE /\ MutexLock(t)
            /\ IF LockFailed
               THEN /\ Return(t, Entered("add_task", name), ErrLock, <<>>)
                    /\ UNCHANGED <<tasks, file, now, faults>>
               ELSE IF AlreadyExists(tasks, trimmed_name)
               THEN /\ Return(t, Entered("add_task", name), ErrAlreadyExists, <<>>)
                    /\ UNCHANGED <<tasks, file, now, faults>>
               ELSE /\ tasks' = Insert(tasks, trimmed_name, now)
                    /\ SaveTasksSerialize(t, Entered("add_task", name))
                    /\ UNCHANGED <<file, now>>
    /\ UNCHANGED app

\* get_mut that looks for the trimmed name
GetMutTrimmed(m, name) ==
    IF ContainsKey(m, Trim(name)) THEN Some(Trim(name)) ELSE None

\* tasks.get_mut(name): the entry of the map with that key, if there is one
GetMut(m, name) == IF ContainsKey(m, name) THEN Some(name) ELSE None

\* commands::start_task and AppState::start_task, up to the write of the file
StartTask(t, name) ==
    /\ Dispatch(t)
    /\ MutexLock(t)
    /\ IF LockFailed
       THEN /\ Return(t, Entered("start_task", name), ErrLock, <<>>)
            /\ UNCHANGED <<tasks, file, now, faults>>
       ELSE IF GetMut(tasks, name) = None
       THEN /\ Return(t, Entered("start_task", name), ErrNotFound, <<>>)
            /\ UNCHANGED <<tasks, file, now, faults>>
       ELSE /\ tasks' = [tasks EXCEPT ![GetMut(tasks, name)[1]] = TaskStart(@, now)]
            /\ SaveTasksSerialize(t, Entered("start_task", name))
            /\ UNCHANGED <<file, now>>
    /\ UNCHANGED app

\* commands::stop_task and AppState::stop_task, up to the write of the file
StopTask(t, name) ==
    /\ Dispatch(t)
    /\ MutexLock(t)
    /\ IF LockFailed
       THEN /\ Return(t, Entered("stop_task", name), ErrLock, <<>>)
            /\ UNCHANGED <<tasks, file, now, faults>>
       ELSE IF GetMut(tasks, name) = None
       THEN /\ Return(t, Entered("stop_task", name), ErrNotFound, <<>>)
            /\ UNCHANGED <<tasks, file, now, faults>>
       ELSE IF SessionOverflows(tasks[GetMut(tasks, name)[1]], now)
       THEN /\ Panic(t)
            /\ UNCHANGED <<tasks, file, now, faults>>
       ELSE /\ tasks' = [tasks EXCEPT ![GetMut(tasks, name)[1]] = TaskStop(@, now)]
            /\ SaveTasksSerialize(t, Entered("stop_task", name))
            /\ UNCHANGED <<file, now>>
    /\ UNCHANGED app

\* commands::reset_task and AppState::reset_task, up to the write of the file
ResetTask(t, name) ==
    /\ Dispatch(t)
    /\ MutexLock(t)
    /\ IF LockFailed
       THEN /\ Return(t, Entered("reset_task", name), ErrLock, <<>>)
            /\ UNCHANGED <<tasks, file, now, faults>>
       ELSE IF GetMut(tasks, name) = None
       THEN /\ Return(t, Entered("reset_task", name), ErrNotFound, <<>>)
            /\ UNCHANGED <<tasks, file, now, faults>>
       ELSE IF SessionOverflows(tasks[GetMut(tasks, name)[1]], now)
       THEN /\ Panic(t)
            /\ UNCHANGED <<tasks, file, now, faults>>
       ELSE /\ tasks' = [tasks EXCEPT ![GetMut(tasks, name)[1]] = TaskReset(@, now)]
            /\ SaveTasksSerialize(t, Entered("reset_task", name))
            /\ UNCHANGED <<file, now>>
    /\ UNCHANGED app

\* commands::delete_task and AppState::delete_task, up to the write of the file
DeleteTask(t, name) ==
    /\ Dispatch(t)
    /\ MutexLock(t)
    /\ IF LockFailed
       THEN /\ Return(t, Entered("delete_task", name), ErrLock, <<>>)
            /\ UNCHANGED <<tasks, file, now, faults>>
       ELSE IF ~ContainsKey(tasks, name)
       THEN /\ Return(t, Entered("delete_task", name), ErrNotFound, <<>>)
            /\ UNCHANGED <<tasks, file, now, faults>>
       ELSE /\ tasks' = Remove(tasks, name)
            /\ SaveTasksSerialize(t, Entered("delete_task", name))
            /\ UNCHANGED <<file, now>>
    /\ UNCHANGED app

\* what a failed fs::write can leave of the file: it is opened with
\* truncation before it is written
FailedWrite(f) == {f, FileTruncated}

\* a write error that is swallowed: the save reports success
WriteErrorSwallowed == Ok

\* what save_tasks reports when fs::write fails
WriteError == ErrWrite

\* Persistence::save_tasks, second half: fs::write, and the return
SaveTasksWrite(t) ==
    /\ th[t].pc = "write"
    /\ NoResultPending
    /\ \/ /\ file' = FileJson(th[t].json)
          /\ Return(t, th[t], Ok, <<>>)
          /\ UNCHANGED faults
       \/ /\ Fault
          /\ file' \in FailedWrite(file)
          /\ Return(t, th[t], WriteError, <<>>)
    /\ UNCHANGED <<tasks, now>>
    /\ UNCHANGED app

\* get_tasks that banks the time of the running sessions in the store
\* before it makes the views
GetTasksBanking(t) ==
    /\ Dispatch(t)
    /\ MutexLock(t)
    /\ IF LockFailed
       THEN /\ Return(t, Entered("get_tasks", <<>>), ErrLock, <<>>)
            /\ UNCHANGED tasks
       ELSE IF \E k \in DOMAIN tasks : SessionOverflows(tasks[k], now)
       THEN /\ Panic(t)
            /\ UNCHANGED tasks
       ELSE /\ tasks' = [k \in DOMAIN tasks |->
                            IF tasks[k].is_running
                            THEN TaskStart(TaskStop(tasks[k], now), now)
                            ELSE tasks[k]]
            /\ \E list \in GetTasksList(tasks, now) :
                  Return(t, Entered("get_tasks", <<>>), Ok, list)
    /\ UNCHANGED <<file, now, faults>>
    /\ UNCHANGED app

\* commands::get_tasks
GetTasks(t) ==
    /\ Dispatch(t)
    /\ MutexLock(t)
    /\ IF LockFailed
       THEN Return(t, Entered("get_tasks", <<>>), ErrLock, <<>>)
       ELSE IF \E k \in DOMAIN tasks : SessionOverflows(tasks[k], now)
       THEN Panic(t)
       ELSE \E list \in GetTasksList(tasks, now) :
               Return(t, Entered("get_tasks", <<>>), Ok, list)
    /\ UNCHANGED <<tasks, file, now, faults>>
    /\ UNCHANGED app

\* the lines of the export file when the n-th writeln! fails
Written(lines, n) == SubSeq(lines, 1, n - 1)

\* commands::export_tasks and AppState::export_tasks
ExportTasks(t) ==
    /\ Dispatch(t)
    /\ MutexLock(t)
    /\ IF LockFailed
       THEN /\ Return(t, Entered("export_tasks", <<>>), ErrLock, <<>>)
            /\ UNCHANGED faults
       ELSE \/ /\ \E lines \in ExportToTxt(tasks, now) :
                     IF Len(lines) = ExportLength(tasks)
                     THEN Return(t, Entered("export_tasks", <<>>), Ok, lines)
                     ELSE Panic(t)
               /\ UNCHANGED faults
            \/ /\ Fault
               /\ \/ Return(t, Entered("export_tasks", <<>>), ErrExportCreate, <<>>)
                  \/ \E lines \in ExportToTxt(tasks, now) :
                        \E n \in 1..Len(lines) :
                           Return(t, Entered("export_tasks", <<>>), ErrExportWrite,
                                  Written(lines, n))
    /\ UNCHANGED <<tasks, file, now>>
    /\ UNCHANGED app

\* the caller takes the result of its command
TakeResult(t) ==
    /\ th[t].pc = "done"
    /\ th' = [th EXCEPT ![t] = IdleThread]
    /\ UNCHANGED <<tasks, file, now, lock, faults>>
    /\ UNCHANGED app

\* no command is between its two steps: the write of the file does not
\* read the clock
Quiet == \A u \in Threads : th[u].pc = "idle"

\* Local::now() moves on
ClockAdvance ==
    /\ Quiet
    /\ \E c \in Clock :
          /\ c > now
          /\ \A k \in DOMAIN tasks : GetCurrentTime(tasks[k], c) <= MaxTotalMs
          /\ now' = c
    /\ UNCHANGED <<tasks, file, lock, th, faults>>
    /\ UNCHANGED app

\* the wall clock is set back
ClockBackward ==
    /\ Quiet
    /\ \E c \in Clock :
          /\ c < now
          /\ now' = c
    /\ UNCHANGED <<tasks, file, lock, th, faults>>
    /\ UNCHANGED app

\* the clock moves on so far that the current time of a running task is
\* beyond the range of Duration
ClockOverrun ==
    /\ Quiet
    /\ \E c \in Clock :
          /\ c > now
          /\ \E k \in DOMAIN tasks : SessionOverflows(tasks[k], c)
          /\ now' = c
    /\ UNCHANGED <<tasks, file, lock, th, faults>>
    /\ UNCHANGED app

\* AppState::new
AppStateNew(f) == LoadTasks(f)

\* a start of the process that replaces a file it cannot parse by the file
\* of the empty map
RestartRepairing ==
    /\ Quiet
    /\ tasks' = AppStateNew(file)
    /\ file' = IF file.kind \in {"absent", "json"} THEN file
               ELSE FileJson(EmptyMap)
    /\ lock' = NoThread
    /\ th' = [th EXCEPT ![1] = [Entered("run", <<>>) EXCEPT
                                    !.pc = "done", !.res = Ok]]
    /\ UNCHANGED <<now, faults>>
    /\ UNCHANGED app

\* the process ends and is started again: run() builds AppState::new(), with
\* a new mutex around the tasks loaded, and is then ready for commands
Restart ==
    /\ Quiet
    /\ tasks' = AppStateNew(file)
    /\ lock' = NoThread
    /\ th' = [th EXCEPT ![1] = [Entered("run", <<>>) EXCEPT
                                    !.pc = "done", !.res = Ok]]
    /\ UNCHANGED <<file, now, faults>>
    /\ UNCHANGED app

\* #[derive(Default)] for TimeTrackerApp (src/app.rs), but for its tasks and
\* the text being typed: the state of the egui front end, which the
\* commands of the Tauri back end do not have
TimeTrackerAppDefault ==
    [ show_reset_dialog  |-> FALSE,
      task_to_reset      |-> <<>>,
      show_delete_dialog |-> FALSE,
      task_to_delete     |-> <<>>,
      last_save_time     |-> None ]

\* the store files the program can find when it starts
InitFiles ==
    { FileAbsent, FileUnreadable, FileCorrupt,
      FileJson(ToJson(Insert(EmptyMap, <<"a">>, 0))) }

Init ==
    /\ file \in InitFiles
    /\ tasks = AppStateNew(file)
    /\ now = 0
    /\ lock = NoThread
    /\ th = [t \in Threads |-> IdleThread]
    /\ faults = 0
    /\ app = TimeTrackerAppDefault

Next ==
    \/ \E t \in Threads, name \in AddNames : AddTask(t, name)
    \/ \E t \in Threads, name \in TaskNames : StartTask(t, name)
    \/ \E t \in Threads, name \in TaskNames : StopTask(t, name)
    \/ \E t \in Threads, name \in TaskNames : ResetTask(t, name)
    \/ \E t \in Threads, name \in TaskNames : DeleteTask(t, name)
    \/ \E t \in Threads : GetTasks(t)
    \/ \E t \in Threads : ExportTasks(t)
    \/ \E t \in Threads : SaveTasksWrite(t)
    \/ \E t \in Threads : TakeResult(t)
    \/ ClockAdvance
    \/ ClockBackward
    \/ Restart

Spec == Init /\ [][Next]_vars

\* the commands when the clock is free to run a session beyond the range of
\* Duration
PoisonNext ==
    \/ Next
    \/ ClockOverrun

PoisonSpec == Init /\ [][PoisonNext]_vars

----------------------------------------------------------------------------
(* Task::format_duration on its own *)

\* the durations format_duration is called with, in milliseconds: hours up
\* to and beyond a day and beyond two digits, minutes and seconds at both
\* ends of their range, with and without a part of a second
FormatInputs ==
    { ((h * 60 + m) * 60 + sec) * MillisPerSec + ms :
        h \in {0, 1, 23, 24, 99, 100}, m \in {0, 1, 59}, sec \in {0, 1, 59},
        ms \in {0, 999} }

\* a caller formats the duration d
FormatCall(t, d) ==
    /\ Dispatch(t)
    /\ th' = [th EXCEPT ![t] = [Entered("format_duration", d) EXCEPT
                                    !.pc = "done", !.res = Ok,
                                    !.out = FormatDuration(d)]]
    /\ UNCHANGED <<tasks, file, now, lock, faults>>
    /\ UNCHANGED app

FormatNext ==
    \/ \E t \in Threads, d \in FormatInputs : FormatCall(t, d)
    \/ \E t \in Threads : TakeResult(t)

FormatSpec == Init /\ [][FormatNext]_vars

----------------------------------------------------------------------------
(* The egui front end (src/task.rs, src/persistence.rs, src/app.rs): the   *)
(* UI thread runs update() frame after frame; a frame first makes the      *)
(* periodic save if it is due and then handles what the user did.  The     *)
(* same variables hold its state: tasks is TimeTrackerApp::tasks, app the  *)
(* other fields of TimeTrackerApp, now the reading of Instant::now() and   *)
(* Local::now(), and th[UiThread] what the last handler did.               *)

\* the readings of the clock of the egui front end, in milliseconds
EguiClock == {0, 500}

\* the names typed into the text field
EguiNames == { <<"a">>, <<" ", "a">>, <<"b">>, <<" ">> }

\* the keys the store of the egui front end can have
EguiKeys == {Trim(name) : name \in EguiNames} \ {<<>>}

\* the thread that runs eframe::run_native
UiThread == 1

\* Duration::from_secs(30): the time between two periodic saves
SaveIntervalMs == 30000

\* what a handler returns: nothing
Unit == "()"

\* what is left of a handler that panics
Panicked == "panicked"

\* Task::new (src/task.rs)
EguiTaskNew(name, clock) ==
    [ name       |-> name,
      total_time |-> 0,
      start_time |-> None,
      is_running |-> FALSE,
      created_at |-> clock ]

\* Task::start (src/task.rs)
EguiTaskStart(task, instant) ==
    IF ~task.is_running
    THEN [task EXCEPT !.start_time = Some(instant), !.is_running = TRUE]
    ELSE task

\* Instant::elapsed
Elapsed(start, instant) == instant - start

\* Task::stop (src/task.rs)
EguiTaskStop(task, instant) ==
    IF task.is_running
    THEN [task EXCEPT
            !.total_time = IF task.start_time # None
                           THEN @ + Elapsed(task.start_time[1], instant)
                           ELSE @,
            !.is_running = FALSE,
            !.start_time = None]
    ELSE task

\* Task::reset (src/task.rs)
EguiTaskReset(task, instant) ==
    [EguiTaskStop(task, instant) EXCEPT !.total_time = 0]

\* Task::get_current_time (src/task.rs)
EguiGetCurrentTime(task, instant) ==
    IF task.is_running /\ task.start_time # None
    THEN task.total_time + Elapsed(task.start_time[1], instant)
    ELSE task.total_time

\* #[derive(Serialize)] for Task (src/task.rs)
EguiSerializeTask(task) ==
    [ name       |-> task.name,
      total_time |-> AsSecs(task.total_time),
      created_at |-> task.created_at ]

\* #[derive(Deserialize)] for Task (src/task.rs)
EguiDeserializeTask(rec) ==
    [ name       |-> rec.name,
      total_time |-> FromSecs(rec.total_time),
      start_time |-> None,
      is_running |-> FALSE,
      created_at |-> rec.created_at ]

EguiToJson(m) == [k \in DOMAIN m |-> EguiSerializeTask(m[k])]

EguiFromJson(j) == [k \in DOMAIN j |-> EguiDeserializeTask(j[k])]

\* Persistence::load_tasks (src/persistence.rs)
EguiLoadTasks(f) ==
    IF f.kind = "absent" THEN EmptyMap
    ELSE IF f.kind = "unreadable" THEN EmptyMap
    ELSE IF f.kind = "corrupt" THEN EmptyMap
    ELSE IF f.kind = "truncated" THEN EmptyMap
    ELSE EguiFromJson(f.map)

\* Persistence::save_tasks (src/persistence.rs) of the map m: the file is
\* written, or a failure of create_dir_all, to_string_pretty or fs::write
\* is printed to stderr; nothing is returned either way
EguiSaveTasks(m) ==
    \/ /\ file' = FileJson(EguiToJson(m))
       /\ UNCHANGED faults
    \/ /\ Fault
       /\ file' \in FailedWrite(file)

\* the four lines written for one task
EguiExportBlock(name, task, clock) ==
    LET total_time == FormatDuration(EguiGetCurrentTime(task, clock))
        status     == IF task.is_running THEN " (Running)" ELSE ""
    IN  << ExportLine("Task: ", name, 0, ""),
           ExportLine("Total Time: ", total_time, 0, status),
           ExportLine("Created: ", <<>>, FormatTimestamp(task.created_at), ""),
           ExportLine("", <<>>, 0, "") >>

RECURSIVE EguiExportBlocks(_, _, _)
EguiExportBlocks(m, order, clock) ==
    IF order = <<>> THEN <<>>
    ELSE EguiExportBlock(Head(order), m[Head(order)], clock)
            \o EguiExportBlocks(m, Tail(order), clock)

\* the contents of the file after a complete Persistence::export_to_txt
EguiExportToTxt(m, clock) ==
    { << ExportLine("Time Tracker Export", <<>>, 0, ""),
         ExportLine("Generated on: ", <<>>, FormatTimestamp(clock), ""),
         ExportLine("", <<>>, 0, "") >>
      \o EguiExportBlocks(m, order, clock) :
        order \in SortedOrders([k \in DOMAIN m |-> m[k].created_at]) }

\* the handler returns
EguiReturn(op, arg, saved, out) ==
    th' = [th EXCEPT ![UiThread] = [Entered(op, arg) EXCEPT
                                       !.pc = "done", !.res = Unit,
                                       !.save = saved, !.out = out]]

\* the UI thread is between two frames
EguiReady == th[UiThread].pc = "idle"

\* update: should_save && self.tasks.values().any(|task| task.is_running)
PeriodicSaveDue ==
    /\ IF app.last_save_time = None THEN TRUE
       ELSE now - app.last_save_time[1] >= SaveIntervalMs
    /\ \E k \in DOMAIN tasks : tasks[k].is_running

\* a frame in which the user did something: the periodic save, which comes
\* first in update, is not due
EguiUiEvent == EguiReady /\ ~PeriodicSaveDue

\* update: the periodic save
EguiPeriodicSave ==
    /\ EguiReady
    /\ PeriodicSaveDue
    /\ EguiSaveTasks(tasks)
    /\ app' = [app EXCEPT !.last_save_time = Some(now)]
    /\ EguiReturn("update", <<>>, TRUE, <<>>)
    /\ UNCHANGED <<tasks, now, lock>>

\* update: Enter or the Add Task button
EguiAddTask(name) ==
    LET task_name == Trim(name) IN
    /\ EguiUiEvent
    /\ IF task_name # <<>> /\ ~ContainsKey(tasks, task_name)
       THEN /\ tasks' = [k \in DOMAIN tasks \cup {task_name} |->
                            IF k = task_name THEN EguiTaskNew(name, now)
                            ELSE tasks[k]]
            /\ EguiSaveTasks(tasks')
            /\ EguiReturn("add", name, TRUE, <<>>)
       ELSE /\ EguiReturn("add", name, FALSE, <<>>)
            /\ UNCHANGED <<tasks, file, faults>>
    /\ UNCHANGED <<now, lock, app>>

\* render_task_card: the Start/Stop button of the card of a task
EguiStartStop(name) ==
    /\ EguiUiEvent
    /\ name \in DOMAIN tasks
    /\ tasks' = [tasks EXCEPT ![name] = IF @.is_running
                                        THEN EguiTaskStop(@, now)
                                        ELSE EguiTaskStart(@, now)]
    /\ EguiSaveTasks(tasks')
    /\ EguiReturn("start_stop", name, TRUE, <<>>)
    /\ UNCHANGED <<now, lock, app>>

\* render_task_card: the Reset button of the card of a task
EguiClickReset(name) ==
    /\ EguiUiEvent
    /\ name \in DOMAIN tasks
    /\ app' = [app EXCEPT !.show_reset_dialog = TRUE, !.task_to_reset = name]
    /\ UNCHANGED <<tasks, file, now, lock, th, faults>>

\* update: the Reset button of the reset dialog
EguiConfirmReset ==
    /\ EguiUiEvent
    /\ app.show_reset_dialog
    /\ IF app.task_to_reset \in DOMAIN tasks
       THEN /\ tasks' = [tasks EXCEPT ![app.task_to_reset] = EguiTaskReset(@, now)]
            /\ EguiSaveTasks(tasks')
            /\ EguiReturn("reset", app.task_to_reset, TRUE, <<>>)
       ELSE /\ EguiReturn("reset", app.task_to_reset, FALSE, <<>>)
            /\ UNCHANGED <<tasks, file, faults>>
    /\ app' = [app EXCEPT !.show_reset_dialog = FALSE]
    /\ UNCHANGED <<now, lock>>

\* update: the Cancel button of the reset dialog
EguiCancelReset ==
    /\ EguiUiEvent
    /\ app.show_reset_dialog
    /\ app' = [app EXCEPT !.show_reset_dialog = FALSE]
    /\ UNCHANGED <<tasks, file, now, lock, th, faults>>

\* render_task_card: the delete button of the card of a task
EguiClickDelete(name) ==
    /\ EguiUiEvent
    /\ name \in DOMAIN tasks
    /\ app' = [app EXCEPT !.show_delete_dialog = TRUE, !.task_to_delete = name]
    /\ UNCHANGED <<tasks, file, now, lock, th, faults>>

\* update: the Delete button of the delete dialog
EguiConfirmDelete ==
    /\ EguiUiEvent
    /\ app.show_delete_dialog
    /\ tasks' = [k \in DOMAIN tasks \ {app.task_to_delete} |-> tasks[k]]
    /\ EguiSaveTasks(tasks')
    /\ EguiReturn("delete", app.task_to_delete, TRUE, <<>>)
    /\ app' = [app EXCEPT !.show_delete_dialog = FALSE]
    /\ UNCHANGED <<now, lock>>

\* update: the Cancel button of the delete dialog
EguiCancelDelete ==
    /\ EguiUiEvent
    /\ app.show_delete_dialog
    /\ app' = [app EXCEPT !.show_delete_dialog = FALSE]
    /\ UNCHANGED <<tasks, file, now, lock, th, faults>>

\* update: the Export button; Persistence::export_to_txt (src/persistence.rs):
\* the file dialog is cancelled, or the file is written, or File::create
\* fails, which is printed to stderr, or a writeln! fails and its unwrap()
\* panics on the UI thread
EguiExport ==
    /\ EguiUiEvent
    /\ \/ /\ EguiReturn("export", <<>>, FALSE, <<>>)
          /\ UNCHANGED faults
       \/ /\ \E lines \in EguiExportToTxt(tasks, now) :
                EguiReturn("export", <<>>, FALSE, lines)
          /\ UNCHANGED faults
       \/ /\ Fault
          /\ EguiReturn("export", <<>>, FALSE, <<>>)
       \/ /\ Fault
          /\ \E lines \in EguiExportToTxt(tasks, now) :
                \E n \in 1..Len(lines) :
                   th' = [th EXCEPT ![UiThread] =
                            [Entered("export", <<>>) EXCEPT
                                !.pc = "crashed", !.res = Panicked,
                                !.out = Written(lines, n)]]
    /\ UNCHANGED <<tasks, file, now, lock, app>>

\* on_exit: the window is closed; the tasks are saved and the process ends
EguiOnExit ==
    /\ EguiReady
    /\ EguiSaveTasks(tasks)
    /\ th' = [th EXCEPT ![UiThread] = [Entered("on_exit", <<>>) EXCEPT
                                          !.pc = "exited", !.res = Unit,
                                          !.save = TRUE]]
    /\ UNCHANGED <<tasks, now, lock, app>>

\* TimeTrackerApp::new: the program is started again
EguiNew ==
    /\ th[UiThread].pc \in {"exited", "crashed"}
    /\ tasks' = EguiLoadTasks(file)
    /\ app' = TimeTrackerAppDefault
    /\ th' = [th EXCEPT ![UiThread] = [Entered("new", <<>>) EXCEPT
                                          !.pc = "done", !.res = Unit]]
    /\ UNCHANGED <<file, now, lock, faults>>

\* Instant::now() and Local::now() move on
EguiClockAdvance ==
    /\ EguiReady
    /\ \E c \in EguiClock :
          /\ c > now
          /\ \A k \in DOMAIN tasks : EguiGetCurrentTime(tasks[k], c) <= MaxTotalMs
          /\ now' = c
    /\ UNCHANGED <<tasks, file, lock, th, faults, app>>

EguiInit ==
    /\ file \in InitFiles
    /\ tasks = EguiLoadTasks(file)
    /\ now = 0
    /\ lock = NoThread
    /\ th = [t \in Threads |-> IdleThread]
    /\ faults = 0
    /\ app = TimeTrackerAppDefault

EguiNext ==
    \/ EguiPeriodicSave
    \/ \E name \in EguiNames : EguiAddTask(name)
    \/ \E name \in EguiKeys : EguiStartStop(name)
    \/ \E name \in EguiKeys : EguiClickReset(name)
    \/ EguiConfirmReset
    \/ EguiCancelReset
    \/ \E name \in EguiKeys : EguiClickDelete(name)
    \/ EguiConfirmDelete
    \/ EguiCancelDelete
    \/ EguiExport
    \/ EguiOnExit
    \/ EguiNew
    \/ \E t \in Threads : TakeResult(t)
    \/ EguiClockAdvance

EguiSpec == EguiInit /\ [][EguiNext]_vars

----------------------------------------------------------------------------
(* The egui front end over more than one interval of the periodic save *)

\* the readings of the clock, in milliseconds: a second and the save
\* interval after the start
EguiLongClock == {0, MillisPerSec, SaveIntervalMs}

\* the name typed into the text field
EguiLongNames == { <<"a">> }

\* update asks for its next frame within 100 ms (request_repaint_after), so
\* a periodic save that is due is made before the clock reads a later value
EguiClockRun ==
    /\ EguiReady
    /\ ~PeriodicSaveDue
    /\ \E c \in EguiLongClock :
          /\ c > now
          /\ now' = c
    /\ UNCHANGED <<tasks, file, lock, th, faults, app>>

EguiLongNext ==
    \/ EguiPeriodicSave
    \/ \E name \in EguiLongNames : EguiAddTask(name)
    \/ \E name \in EguiLongNames : EguiStartStop(name)
    \/ \E name \in EguiLongNames : EguiClickReset(name)
    \/ EguiConfirmReset
    \/ EguiCancelReset
    \/ \E name \in EguiLongNames : EguiClickDelete(name)
    \/ EguiConfirmDelete
    \/ EguiCancelDelete
    \/ EguiExport
    \/ EguiOnExit
    \/ EguiNew
    \/ \E t \in Threads : TakeResult(t)
    \/ EguiClockRun

EguiLongSpec == EguiInit /\ [][EguiLongNext]_vars

----------------------------------------------------------------------------
(* The claims *)

Done(t) == th[t].pc = "done"

MutatingOps ==
    {"add_task", "start_task", "stop_task", "reset_task", "delete_task"}

LookupOps == {"start_task", "stop_task", "reset_task", "delete_task"}

SaveErrors == {ErrCreateDir, ErrSerialize, ErrWrite}

\* the persisted form of a map: name, total_time in whole seconds and
\* created_at of every key
PersistedProjection(m) ==
    [k \in DOMAIN m |->
        [ name       |-> m[k].name,
          total_time |-> m[k].total_time \div 1000,
          created_at |-> m[k].created_at ]]

PersistedFile(m) == [kind |-> "json", map |-> PersistedProjection(m)]

\* C1: when a mutating command returns Ok, the store file holds the
\* persisted projection of the in-memory map as it is at that moment,
\* whatever the other threads do.
C1_SavedBeforeOk ==
    \A t \in Threads :
        (Done(t) /\ th[t].op \in MutatingOps /\ th[t].res = Ok)
            => file = PersistedFile(tasks)

\* C1 witness: stop_task returned Ok with half a second banked, which the
\* file holds as 0 whole seconds.
C1_Witness ==
    \E t \in Threads :
        /\ Done(t) /\ th[t].op = "stop_task" /\ th[t].res = Ok
        /\ th[t].arg \in DOMAIN tasks
        /\ tasks[th[t].arg].total_time = 500
        /\ file.kind = "json"
        /\ file.map[th[t].arg].total_time = 0

\* C2: every task of the store is running exactly if its session start
\* timestamp is set.
C2_RunningIffStarted ==
    \A k \in DOMAIN tasks :
        tasks[k].is_running <=> (tasks[k].start_timestamp # None)

\* C2 witness: a task was started and stopped again while another one runs.
C2_Witness ==
    \E t \in Threads, k \in DOMAIN tasks :
        /\ Done(t) /\ th[t].op = "stop_task" /\ th[t].arg \in DOMAIN tasks
        /\ th[t].pre.tasks[th[t].arg].is_running
        /\ k # th[t].arg
        /\ tasks[k].is_running

\* the outcomes of save_tasks for the map m when the file is f
SerialSave(m, f) ==
    {<<m, PersistedFile(m), Ok, <<>>>>}
        \cup {<<m, f, e, <<>>>> : e \in SaveErrors}
        \cup {<<m, FileTruncated, ErrWrite, <<>>>>}

\* the map after the change that the command of call c makes to the map
\* it found
Mutated(c) ==
    LET m == c.pre.tasks
        n == c.pre.now
    IN  CASE c.op = "add_task"    -> Insert(m, Trim(c.arg), n)
          [] c.op = "start_task"  -> [m EXCEPT ![c.arg] = TaskStart(@, n)]
          [] c.op = "stop_task"   -> [m EXCEPT ![c.arg] = TaskStop(@, n)]
          [] c.op = "reset_task"  -> [m EXCEPT ![c.arg] = TaskReset(@, n)]
          [] c.op = "delete_task" -> Remove(m, c.arg)

\* the outcomes <<map, file, result, output>> of the command of call c when
\* it runs alone, from the state c.pre
SerialOutcomes(c) ==
    LET m == c.pre.tasks
        f == c.pre.file
        n == c.pre.now
        same(res) == {<<m, f, res, <<>>>>}
    IN  CASE c.op = "add_task" ->
               IF Trim(c.arg) = <<>> THEN same(ErrEmptyName)
               ELSE IF Trim(c.arg) \in DOMAIN m THEN same(ErrAlreadyExists)
               ELSE SerialSave(Mutated(c), f)
          [] c.op \in LookupOps ->
               IF c.arg \notin DOMAIN m THEN same(ErrNotFound)
               ELSE SerialSave(Mutated(c), f)
          [] c.op = "get_tasks" ->
               {<<m, f, Ok, list>> : list \in GetTasksList(m, n)}
          [] c.op = "run" ->
               {<<LoadTasks(f), f, Ok, <<>>>>}
          [] c.op = "export_tasks" ->
               same(ErrExportCreate)
                 \cup {<<m, f, Ok, lines>> : lines \in ExportToTxt(m, n)}
                 \cup UNION {{<<m, f, ErrExportWrite, Written(lines, i)>> :
                                 i \in 1..Len(lines)} :
                             lines \in ExportToTxt(m, n)}

\* C3: commands are atomic with respect to each other: when a command
\* returns, the map, the file, its result and its output are those of the
\* command run alone from the state it found when it took the lock, so the
\* commands take effect one after the other in the order of their locks.
C3_Atomic ==
    \A t \in Threads :
        Done(t) =>
            <<tasks, file, th[t].res, th[t].out>> \in SerialOutcomes(th[t])

\* C3 witness: a command returns while another one is between its change of
\* the map and its write of the file.
C3_Witness ==
    \E t, u \in Threads :
        /\ Done(t)
        /\ th[u].pc = "write" /\ th[u].op = "start_task"

\* the save of the command of call c failed
SaveFailed(c) ==
    c.op \in MutatingOps /\ c.save /\ faults > c.pre.faults

C5_NotFound ==
    \A t \in Threads :
        ( /\ Done(t) /\ th[t].op \in LookupOps
          /\ th[t].arg \notin DOMAIN th[t].pre.tasks ) =>
            /\ th[t].res = ErrNotFound
            /\ tasks = th[t].pre.tasks
            /\ file = th[t].pre.file
            /\ ~th[t].save
            /\ faults = th[t].pre.faults

\* C5 witness: stop_task of " a " is not found although "a" is a running task.
C5_Witness ==
    \E t \in Threads :
        /\ Done(t) /\ th[t].op = "stop_task" /\ th[t].res = ErrNotFound
        /\ th[t].arg = <<" ", "a", " ">>
        /\ <<"a">> \in DOMAIN tasks
        /\ tasks[<<"a">>].is_running

\* C6: add_task of a name whose trimmed form is a key of the store returns
\* the duplicate error and leaves the map and the file as they were, with
\* no save; every key of the store is its own trimmed form.
C6_Duplicate ==
    /\ \A k \in DOMAIN tasks : Trim(k) = k
    /\ \A t \in Threads :
        ( /\ Done(t) /\ th[t].op = "add_task"
          /\ Trim(th[t].arg) \in DOMAIN th[t].pre.tasks ) =>
            /\ th[t].res = ErrAlreadyExists
            /\ tasks = th[t].pre.tasks
            /\ file = th[t].pre.file
            /\ ~th[t].save

\* C6 witness: add_task of " a " is refused while "a" runs with banked time
\* and "A" is a task of its own.
C6_Witness ==
    \E t \in Threads :
        /\ Done(t) /\ th[t].op = "add_task" /\ th[t].res = ErrAlreadyExists
        /\ th[t].arg = <<" ", "a", " ">>
        /\ DOMAIN tasks = {<<"a">>, <<"A">>}
        /\ tasks[<<"a">>].is_running
        /\ tasks[<<"a">>].total_time > 0

\* C7: add_task of a name that is empty after trimming returns the
\* empty-name error, creates no task and attempts no save.
C7_EmptyName ==
    /\ <<>> \notin DOMAIN tasks
    /\ \A t \in Threads :
        ( /\ Done(t) /\ th[t].op = "add_task"
          /\ Trim(th[t].arg) = <<>> ) =>
            /\ th[t].res = ErrEmptyName
            /\ tasks = th[t].pre.tasks
            /\ file = th[t].pre.file
            /\ ~th[t].save

\* C7 witness: add_task of " " is refused while another command holds the
\* lock.
C7_Witness ==
    \E t \in Threads :
        /\ Done(t) /\ th[t].op = "add_task" /\ th[t].res = ErrEmptyName
        /\ th[t].arg = <<" ">>
        /\ lock \in Threads \ {t}

\* C8: reset_task leaves the task with total time 0, not running and with
\* no session start, so that its current time is 0 whatever the clock
\* reads, whether or not the save succeeds.
C8_ResetZero ==
    \A t \in Threads :
        ( /\ Done(t) /\ th[t].op = "reset_task"
          /\ th[t].arg \in DOMAIN th[t].pre.tasks ) =>
            /\ th[t].arg \in DOMAIN tasks
            /\ tasks[th[t].arg].total_time = 0
            /\ ~tasks[th[t].arg].is_running
            /\ tasks[th[t].arg].start_timestamp = None
            /\ \A c \in Clock : GetCurrentTime(tasks[th[t].arg], c) = 0

\* C8 witness: the task reset had banked time and a session that had run
\* for some time.
C8_Witness ==
    \E t \in Threads :
        /\ Done(t) /\ th[t].op = "reset_task"
        /\ th[t].arg \in DOMAIN th[t].pre.tasks
        /\ LET old == th[t].pre.tasks[th[t].arg]
           IN  /\ old.total_time > 0
               /\ old.is_running
               /\ th[t].pre.now > old.start_timestamp[1]

\* C9: stop_task of a running task adds max(0, now - start) to its total
\* time and leaves it not running; of a task that is not running it changes
\* nothing; the total never decreases; and start_task of a task that is not
\* running records the clock of the call as the session start.
C9_StopBanksElapsed ==
    \A t \in Threads :
        (Done(t) /\ th[t].arg \in DOMAIN th[t].pre.tasks) =>
            LET old == th[t].pre.tasks[th[t].arg]
                new == tasks[th[t].arg]
                at  == th[t].pre.now
            IN  /\ th[t].op = "stop_task" =>
                    /\ new.total_time >= old.total_time
                    /\ IF old.is_running
                       THEN LET d == at - old.start_timestamp[1]
                            IN  new = [old EXCEPT
                                         !.total_time =
                                             @ + (IF d > 0 THEN d ELSE 0),
                                         !.is_running = FALSE,
                                         !.start_timestamp = None]
                       ELSE new = old
                /\ (th[t].op = "start_task" /\ ~old.is_running) =>
                    new = [old EXCEPT !.is_running = TRUE,
                                      !.start_timestamp = <<at>>]

\* C9 witness: a session is stopped when the clock reads less than it did
\* at the start of the session.
C9_Witness ==
    \E t \in Threads :
        /\ Done(t) /\ th[t].op = "stop_task"
        /\ th[t].arg \in DOMAIN th[t].pre.tasks
        /\ LET old == th[t].pre.tasks[th[t].arg]
           IN  /\ old.is_running
               /\ th[t].pre.now < old.start_timestamp[1]
               /\ old.total_time > 0

\* C10: start_task of a task that is running leaves the task as it is: the
\* session start and the total time are not changed.
C10_StartWhileRunning ==
    \A t \in Threads :
        ( /\ Done(t) /\ th[t].op = "start_task"
          /\ th[t].arg \in DOMAIN th[t].pre.tasks
          /\ th[t].pre.tasks[th[t].arg].is_running ) =>
            /\ th[t].arg \in DOMAIN tasks
            /\ tasks[th[t].arg] = th[t].pre.tasks[th[t].arg]

\* C10 witness: start_task of a running task when the clock no longer reads
\* what it did at the start of the session.
C10_Witness ==
    \E t \in Threads :
        /\ Done(t) /\ th[t].op = "start_task"
        /\ th[t].arg \in DOMAIN th[t].pre.tasks
        /\ LET old == th[t].pre.tasks[th[t].arg]
           IN  /\ old.is_running
               /\ th[t].pre.now > old.start_timestamp[1]

\* thread t takes up a command in this step
Calls(t) == th[t].pc = "idle" /\ th'[t].pc # "idle"

\* the step is a start of the process, not a command of the store
IsRestart == \E t \in Threads : Calls(t) /\ th'[t].op = "run"

\* C11: in every step of a store command, the total time of a task that
\* stays in the store changes only if the step is stop_task of that task
\* while it runs, which makes it larger, or reset_task of that task, which
\* makes it 0; add, start, delete, get_tasks, export, the write of the file
\* and the clock leave it as it is.
C11_TotalChangesOnlyByStopAndReset ==
    [][ ~IsRestart =>
          \A k \in (DOMAIN tasks) \cap (DOMAIN tasks') :
              tasks'[k].total_time # tasks[k].total_time =>
                  \E t \in Threads :
                      /\ Calls(t)
                      /\ th'[t].arg = k
                      /\ \/ /\ th'[t].op = "stop_task"
                            /\ tasks[k].is_running
                            /\ tasks'[k].total_time > tasks[k].total_time
                         \/ /\ th'[t].op = "reset_task"
                            /\ tasks'[k].total_time = 0 ]_vars

\* C11 witness: stop_task has made the total of its task larger while
\* another task, which keeps its banked time, is running.
C11_Witness ==
    \E t \in Threads, k \in DOMAIN tasks :
        /\ Done(t) /\ th[t].op = "stop_task"
        /\ th[t].arg \in DOMAIN th[t].pre.tasks
        /\ tasks[th[t].arg].total_time > th[t].pre.tasks[th[t].arg].total_time
        /\ k # th[t].arg
        /\ tasks[k].is_running
        /\ tasks[k].total_time > 0
        /\ tasks[k] = th[t].pre.tasks[k]

\* C12: get_current_time of a task that is not running is its total time;
\* of a running task it is the total time plus max(0, now - start); it is
\* never less than the total time; and get_tasks, which calls it for every
\* task, reports that value in whole seconds and leaves the store as it is.
C12_CurrentTime ==
    /\ \A k \in DOMAIN tasks :
          LET task == tasks[k]
              cur  == GetCurrentTime(task, now)
          IN  /\ cur >= task.total_time
              /\ ~task.is_running => cur = task.total_time
              /\ task.is_running =>
                    cur = task.total_time
                            + (IF now > task.start_timestamp[1]
                               THEN now - task.start_timestamp[1] ELSE 0)
    /\ \A t \in Threads :
          (Done(t) /\ th[t].op = "get_tasks" /\ th[t].res = Ok) =>
              /\ tasks = th[t].pre.tasks
              /\ \A i \in DOMAIN th[t].out :
                    LET task == tasks[th[t].out[i].name]
                        live == IF task.is_running
                                    /\ th[t].pre.now > task.start_timestamp[1]
                                THEN th[t].pre.now - task.start_timestamp[1]
                                ELSE 0
                    IN  th[t].out[i].total_time_secs
                            = (task.total_time + live) \div 1000

\* C12 witness: get_tasks reports one second for a running task that has
\* banked half a second, and no second for a stopped task that has banked as
\* much.
C12_Witness ==
    \E t \in Threads :
        /\ Done(t) /\ th[t].op = "get_tasks" /\ th[t].res = Ok
        /\ \E i, j \in DOMAIN th[t].out :
              /\ th[t].out[i].is_running
              /\ th[t].out[i].total_time_secs = 1
              /\ tasks[th[t].out[i].name].total_time = 500
              /\ ~th[t].out[j].is_running
              /\ th[t].out[j].total_time_secs = 0
              /\ tasks[th[t].out[j].name].total_time = 500

\* the names of the views of a list, in the order of the list
ViewNames(list) == [i \in DOMAIN list |-> list[i].name]

\* C13 as claimed: get_tasks returns one view per task of the store, and a
\* task created earlier than another one comes before it in the list.
C13_ListSorted ==
    \A t \in Threads :
        (Done(t) /\ th[t].op = "get_tasks" /\ th[t].res = Ok) =>
            LET names == ViewNames(th[t].out)
            IN  /\ Len(names) = Cardinality(DOMAIN tasks)
                /\ {names[i] : i \in DOMAIN names} = DOMAIN tasks
                /\ \A i, j \in DOMAIN names :
                      tasks[names[i]].created_at < tasks[names[j]].created_at
                          => i < j

\* the process was started from the file that a successful save of the map
\* pre.tasks had written, and no task of that map was running
LoadedAfterSave(c) ==
    /\ c.op = "run"
    /\ c.pre.file = PersistedFile(c.pre.tasks)
    /\ \A k \in DOMAIN c.pre.tasks : ~c.pre.tasks[k].is_running

\* C14 as claimed: a map with no running task that is saved and loaded
\* again has the same keys, and every task has the name, the total time and
\* the created_at it had, and is not running.
C14_Original ==
    \A t \in Threads :
        (Done(t) /\ LoadedAfterSave(th[t])) =>
            /\ DOMAIN tasks = DOMAIN th[t].pre.tasks
            /\ \A k \in DOMAIN tasks :
                  /\ tasks[k].name = th[t].pre.tasks[k].name
                  /\ tasks[k].total_time = th[t].pre.tasks[k].total_time
                  /\ tasks[k].created_at = th[t].pre.tasks[k].created_at
                  /\ ~tasks[k].is_running

\* C14 as amended: a map with no running task that is saved and loaded
\* again has the same keys, and every task has the name and the created_at
\* it had, the total time it had cut down to whole seconds, and is not
\* running.
C14_RoundTrip ==
    \A t \in Threads :
        (Done(t) /\ LoadedAfterSave(th[t])) =>
            /\ DOMAIN tasks = DOMAIN th[t].pre.tasks
            /\ \A k \in DOMAIN tasks :
                  /\ tasks[k].name = th[t].pre.tasks[k].name
                  /\ tasks[k].total_time
                        = (th[t].pre.tasks[k].total_time \div 1000) * 1000
                  /\ tasks[k].created_at = th[t].pre.tasks[k].created_at
                  /\ ~tasks[k].is_running
                  /\ tasks[k].start_timestamp = None

\* C14 witness: the map loaded had a task with a whole second banked, which
\* it keeps, and a task with half a second banked, which it loses.
C14_Witness ==
    \E t \in Threads :
        /\ Done(t) /\ LoadedAfterSave(th[t])
        /\ \E j, k \in DOMAIN th[t].pre.tasks :
              /\ th[t].pre.tasks[j].total_time = 1000
              /\ th[t].pre.tasks[k].total_time = 500
              /\ th[t].pre.tasks[k].created_at = 500

\* the fields of a task in the store file
PersistedFields == {"name", "total_time", "created_at"}

\* C15: the persisted form of a task, in the file and in the text about to
\* be written, holds neither the running flag nor the session start; after
\* the store is built from the file every task is not running and has no
\* session start, and its current time is the total_time of the file,
\* whatever the clock reads.
C15_SessionsNotPersisted ==
    /\ file.kind = "json" =>
          \A k \in DOMAIN file.map : DOMAIN file.map[k] = PersistedFields
    /\ \A t \in Threads :
          th[t].pc = "write" =>
              \A k \in DOMAIN th[t].json : DOMAIN th[t].json[k] = PersistedFields
    /\ \A t \in Threads :
          (Done(t) /\ th[t].op = "run") =>
              \A k \in DOMAIN tasks :
                  /\ ~tasks[k].is_running
                  /\ tasks[k].start_timestamp = None
                  /\ tasks[k].total_time = th[t].pre.file.map[k].total_time * 1000
                  /\ \A c \in Clock :
                        GetCurrentTime(tasks[k], c)
                            = th[t].pre.file.map[k].total_time * 1000

\* C15 witness: the process is started again while a task with half a second
\* banked had been running for another half: after the start it has no
\* session and the 0 seconds of the file.
C15_Witness ==
    \E t \in Threads, k \in DOMAIN tasks :
        /\ Done(t) /\ th[t].op = "run"
        /\ k \in DOMAIN th[t].pre.tasks
        /\ th[t].pre.tasks[k].is_running
        /\ th[t].pre.now > th[t].pre.tasks[k].start_timestamp[1]
        /\ th[t].pre.tasks[k].total_time = 500
        /\ tasks[k].total_time = 0

\* C16: the start of the process always succeeds: load_tasks gives the
\* empty map when the file is absent, cannot be read or cannot be parsed,
\* and the map parsed from the file otherwise.
C16_LoadNeverFails ==
    \A t \in Threads :
        (Done(t) /\ th[t].op = "run") =>
            /\ th[t].res = Ok
            /\ file = th[t].pre.file
            /\ IF th[t].pre.file.kind
                    \in {"absent", "unreadable", "corrupt", "truncated"}
               THEN tasks = <<>>
               ELSE /\ th[t].pre.file.kind = "json"
                    /\ DOMAIN tasks = DOMAIN th[t].pre.file.map
                    /\ \A k \in DOMAIN tasks :
                          LET rec == th[t].pre.file.map[k]
                          IN  tasks[k] = [ name            |-> rec.name,
                                           total_time      |-> rec.total_time * 1000,
                                           start_timestamp |-> <<>>,
                                           is_running      |-> FALSE,
                                           created_at      |-> rec.created_at ]

\* C16 witness: the process is started again after a failed write left the
\* file unparsable: the store, which had tasks, is empty.
C16_Witness ==
    \E t \in Threads :
        /\ Done(t) /\ th[t].op = "run"
        /\ th[t].pre.file.kind = "truncated"
        /\ th[t].pre.tasks # <<>>
        /\ th[t].pre.faults > 0
        /\ tasks = <<>>

\* the commands of the store
StoreOps ==
    {"get_tasks", "add_task", "start_task", "stop_task", "reset_task",
     "delete_task", "export_tasks"}

\* the command of call c found the mutex poisoned
FoundPoisoned(c) == c.op \in StoreOps /\ c.pre.lock = Poisoned

\* the command of call c changed nothing and wrote nothing
NothingDone(c) ==
    /\ tasks = c.pre.tasks
    /\ file = c.pre.file
    /\ faults = c.pre.faults
    /\ ~c.save
    /\ c.out = <<>>

\* C17 as claimed: every command that finds the mutex poisoned returns the
\* lock error, and changes and writes nothing.
C17_Original ==
    \A t \in Threads :
        (Done(t) /\ FoundPoisoned(th[t])) =>
            /\ th[t].res = ErrLock
            /\ NothingDone(th[t])

\* C17 as amended: every command that finds the mutex poisoned returns an
\* error, and changes and writes nothing; the error is the lock error, but
\* for add_task of a name that is empty after trimming, which returns the
\* empty-name error before it comes to the lock.
C17_LockFailure ==
    \A t \in Threads :
        (Done(t) /\ FoundPoisoned(th[t])) =>
            /\ th[t].res = IF th[t].op = "add_task" /\ Trim(th[t].arg) = <<>>
                           THEN ErrEmptyName
                           ELSE ErrLock
            /\ NothingDone(th[t])

\* C17 witness: stop_task of a running task is refused with the lock error
\* after a command has panicked under the lock; the task keeps running.
C17_Witness ==
    \E t \in Threads :
        /\ Done(t) /\ FoundPoisoned(th[t])
        /\ th[t].op = "stop_task" /\ th[t].res = ErrLock
        /\ th[t].arg \in DOMAIN tasks
        /\ tasks[th[t].arg].is_running
        /\ lock \notin Threads \cup {NoThread}

\* the number a string of decimal digits stands for
RECURSIVE NatOf(_)
NatOf(str) ==
    IF str = <<>> THEN 0
    ELSE NatOf(SubSeq(str, 1, Len(str) - 1)) * 10
            + (CASE str[Len(str)] = "0" -> 0 [] str[Len(str)] = "1" -> 1
                 [] str[Len(str)] = "2" -> 2 [] str[Len(str)] = "3" -> 3
                 [] str[Len(str)] = "4" -> 4 [] str[Len(str)] = "5" -> 5
                 [] str[Len(str)] = "6" -> 6 [] str[Len(str)] = "7" -> 7
                 [] str[Len(str)] = "8" -> 8 [] str[Len(str)] = "9" -> 9)

IsDigits(str) ==
    \A i \in DOMAIN str :
        str[i] \in {"0", "1", "2", "3", "4", "5", "6", "7", "8", "9"}

\* str is HH:MM:SS for the whole seconds secs: three fields of digits, each
\* padded with zeros to two digits and no further, minutes and seconds
\* below 60, hours not reduced
IsClockText(str, secs) ==
    \E p, q \in DOMAIN str :
        /\ p < q
        /\ {i \in DOMAIN str : str[i] = ":"} = {p, q}
        /\ LET hh == SubSeq(str, 1, p - 1)
               mm == SubSeq(str, p + 1, q - 1)
               ss == SubSeq(str, q + 1, Len(str))
           IN  /\ IsDigits(hh) /\ IsDigits(mm) /\ IsDigits(ss)
               /\ Len(hh) >= 2 /\ Len(mm) = 2 /\ Len(ss) = 2
               /\ Len(hh) > 2 => hh[1] # "0"
               /\ NatOf(hh) = secs \div 3600
               /\ NatOf(mm) = (secs % 3600) \div 60
               /\ NatOf(ss) = secs % 60
               /\ NatOf(mm) \in 0..59 /\ NatOf(ss) \in 0..59
               /\ NatOf(hh) * 3600 + NatOf(mm) * 60 + NatOf(ss) = secs

\* C18: format_duration renders the whole seconds of a duration as
\* HH:MM:SS, the hours not reduced modulo 24 and every field padded to at
\* least two digits; 0 s gives 00:00:00, 59 s gives 00:00:59 and 3661 s
\* gives 01:01:01.
C18_FormatDuration ==
    \A t \in Threads :
        (Done(t) /\ th[t].op = "format_duration") =>
            /\ IsClockText(th[t].out, th[t].arg \div 1000)
            /\ th[t].arg = 0 =>
                  th[t].out = <<"0", "0", ":", "0", "0", ":", "0", "0">>
            /\ th[t].arg = 59000 =>
                  th[t].out = <<"0", "0", ":", "0", "0", ":", "5", "9">>
            /\ th[t].arg = 3661000 =>
                  th[t].out = <<"0", "1", ":", "0", "1", ":", "0", "1">>

\* C18 witness: a duration of 100 hours, 59 minutes and 59.999 seconds is
\* formatted with three digits of hours.
C18_Witness ==
    \E t \in Threads :
        /\ Done(t) /\ th[t].op = "format_duration"
        /\ th[t].arg = 363599999
        /\ th[t].out = <<"1", "0", "0", ":", "5", "9", ":", "5", "9">>

\* the current time of a task at the clock value c, in whole seconds
LiveSeconds(task, c) ==
    (task.total_time
        + (IF task.is_running /\ c > task.start_timestamp[1]
           THEN c - task.start_timestamp[1] ELSE 0)) \div 1000

\* C19: a successful export_tasks writes the header line, the line of the
\* generation time and an empty line, and then one block of four lines for
\* every task of the store and no other, the blocks in ascending order of
\* created_at: the name, the current time as HH:MM:SS with the suffix
\* " (Running)" exactly if the task is running, the creation time, and an
\* empty line; the store is left as it is.
C19_ExportBlocks ==
    \A t \in Threads :
        (Done(t) /\ th[t].op = "export_tasks" /\ th[t].res = Ok) =>
            LET out     == th[t].out
                n       == Cardinality(DOMAIN tasks)
                name(i) == out[4 * i].text
            IN  /\ tasks = th[t].pre.tasks
                /\ Len(out) = 3 + 4 * n
                /\ out[1].label = "Time Tracker Export"
                /\ out[2].label = "Generated on: "
                /\ out[2].ts = th[t].pre.now \div 1000
                /\ out[3].label = ""
                /\ {name(i) : i \in 1..n} = DOMAIN tasks
                /\ \A i \in 1..n :
                      LET task == tasks[name(i)]
                      IN  /\ out[4 * i].label = "Task: "
                          /\ out[4 * i + 1].label = "Total Time: "
                          /\ IsClockText(out[4 * i + 1].text,
                                         LiveSeconds(task, th[t].pre.now))
                          /\ out[4 * i + 1].suffix
                                = (IF task.is_running THEN " (Running)" ELSE "")
                          /\ out[4 * i + 2].label = "Created: "
                          /\ out[4 * i + 2].ts = task.created_at \div 1000
                          /\ out[4 * i + 3].label = ""
                /\ \A i, j \in 1..n :
                      i < j => tasks[name(i)].created_at
                                  <= tasks[name(j)].created_at

\* C19 witness: the export of two tasks created in the same second, the
\* first one stopped and the second one running with a second of current
\* time.
C19_Witness ==
    \E t \in Threads :
        /\ Done(t) /\ th[t].op = "export_tasks" /\ th[t].res = Ok
        /\ Len(th[t].out) = 11
        /\ ~tasks[th[t].out[4].text].is_running
        /\ tasks[th[t].out[8].text].is_running
        /\ tasks[th[t].out[4].text].created_at < tasks[th[t].out[8].text].created_at
        /\ th[t].out[9].text = <<"0", "0", ":", "0", "0", ":", "0", "1">>
        /\ th[t].out[9].suffix = " (Running)"

\* the handlers and commands that write the store file or the export file
WritingOps ==
    MutatingOps \cup {"export_tasks"}
        \cup {"update", "add", "start_stop", "reset", "delete", "on_exit",
              "export"}

\* the errors a command returns when a write fails
WriteErrors == SaveErrors \cup {ErrExportCreate, ErrExportWrite}

\* C20 as claimed: when the file system fails during the save or the export
\* of an operation, in either front end, the operation returns an error to
\* its caller.
C20_WriteFailurePropagated ==
    \A t \in Threads :
        ( /\ th[t].pc \in {"done", "crashed", "exited"}
          /\ th[t].op \in WritingOps
          /\ faults > th[t].pre.faults ) =>
            th[t].res \in WriteErrors

\* C21: when add_task returns Ok, the name it was given, trimmed, was no
\* key of the store and now is one, of a task with that name, a total time
\* of 0, not running, with no session start and created at the time of the
\* call; the store has no other new key and every other task is as it was.
C21_AddCreatesFreshTask ==
    \A t \in Threads :
        (Done(t) /\ th[t].op = "add_task" /\ th[t].res = Ok) =>
            LET key == Trim(th[t].arg)
                old == th[t].pre.tasks
            IN  /\ key \notin DOMAIN old
                /\ DOMAIN tasks = DOMAIN old \cup {key}
                /\ tasks[key].name = key
                /\ tasks[key].total_time = 0
                /\ ~tasks[key].is_running
                /\ tasks[key].start_timestamp = <<>>
                /\ tasks[key].created_at = th[t].pre.now
                /\ \A c \in Clock : GetCurrentTime(tasks[key], c) = 0
                /\ \A k \in DOMAIN old : tasks[k] = old[k]

\* C21 witness: add_task of " a " returned Ok half a second after the start
\* of the process, while "A", which has banked time, is running.
C21_Witness ==
    \E t \in Threads :
        /\ Done(t) /\ th[t].op = "add_task" /\ th[t].res = Ok
        /\ th[t].arg = <<" ", "a", " ">>
        /\ th[t].pre.now = 500
        /\ <<"A">> \in DOMAIN tasks
        /\ tasks[<<"A">>].is_running
        /\ tasks[<<"A">>].total_time > 0

\* the keys the store can have
TaskKeys == {Trim(name) : name \in AddNames} \ {<<>>}

\* the name k is neither a key of the store nor in the store file
Gone(k) == k \notin DOMAIN tasks /\ k \notin DOMAIN file.map

\* delete_task has returned Ok: the entry of its name, and no other, is
\* removed from the map it found, and the file holds the map without it
DeleteDone ==
    \A t \in Threads :
        (Done(t) /\ th[t].op = "delete_task" /\ th[t].res = Ok) =>
            /\ th[t].arg \in DOMAIN th[t].pre.tasks
            /\ DOMAIN tasks = DOMAIN th[t].pre.tasks \ {th[t].arg}
            /\ \A k \in DOMAIN tasks : tasks[k] = th[t].pre.tasks[k]
            /\ file = PersistedFile(tasks)
            /\ Gone(th[t].arg)

\* a name that is no key of the store is in no list, and start, stop, reset
\* and delete of it are not found
AbsentIsUnknown ==
    \A t \in Threads :
        /\ (Done(t) /\ th[t].op = "get_tasks" /\ th[t].res = Ok) =>
              {th[t].out[i].name : i \in DOMAIN th[t].out}
                  = DOMAIN th[t].pre.tasks
        /\ ( /\ Done(t) /\ th[t].op \in LookupOps
             /\ th[t].arg \notin DOMAIN th[t].pre.tasks ) =>
                th[t].res = ErrNotFound

\* a name that is gone from the store and from the file stays so in every
\* step but add_task of that name, which makes it the key of a new task
\* with no time and the creation time of the call
GoneUntilAdded ==
    \A k \in TaskKeys :
        (Gone(k) /\ ~Gone(k)') =>
            /\ \E t \in Threads :
                  /\ Calls(t)
                  /\ th'[t].op = "add_task"
                  /\ Trim(th'[t].arg) = k
            /\ k \in DOMAIN tasks'
            /\ tasks'[k].total_time = 0
            /\ ~tasks'[k].is_running
            /\ tasks'[k].created_at = now

\* C22: a successful delete_task removes the entry of its name and no
\* other, running or not, and the file then holds the map without it;
\* from then on the name is in no list and start, stop, reset and delete of
\* it are not found, and it comes back to the store or the file only by an
\* add_task of that name, which creates a task with total time 0 and the
\* creation time of that call.
C22_DeleteRemoves ==
    [](DeleteDone /\ AbsentIsUnknown) /\ [][GoneUntilAdded]_vars

\* C22 witness: delete_task returned Ok for a task that was running with
\* banked time and was in the file, while another task stays in the store.
C22_Witness ==
    \E t \in Threads :
        /\ Done(t) /\ th[t].op = "delete_task" /\ th[t].res = Ok
        /\ th[t].pre.tasks[th[t].arg].is_running
        /\ th[t].pre.tasks[th[t].arg].total_time > 0
        /\ th[t].arg \in DOMAIN th[t].pre.file.map
        /\ tasks # <<>>

\* C23 as claimed: in every state of the store, of either front end, every
\* key of the map is the name of the task it maps to.
C23_KeyIsName ==
    \A k \in DOMAIN tasks : tasks[k].name = k

\* the commands that read the store
ReadOps == {"get_tasks", "export_tasks"}

\* a read command has returned, with the views, with the export written or
\* with an error: the map and the file are those it found, and it made no
\* save
ReadOnlyDone ==
    \A t \in Threads :
        (Done(t) /\ th[t].op \in ReadOps) =>
            /\ tasks = th[t].pre.tasks
            /\ file = th[t].pre.file
            /\ ~th[t].save

\* the step in which a read command runs, and the step in which its caller
\* takes the views, change neither the map nor the file
ReadOnlyStep ==
    \A t \in Threads :
        ( \/ Calls(t) /\ th'[t].op \in ReadOps
          \/ Done(t) /\ th[t].op \in ReadOps /\ th'[t].pc = "idle" ) =>
            /\ tasks' = tasks
            /\ file' = file

\* C24: get_tasks and export_tasks are read-only: whatever they return,
\* every task keeps its total time, running flag, session start and
\* created_at, no key is added or removed and the store file is not
\* written; the views are values of their own, and what the caller does
\* with them changes nothing in the store.
C24_ReadOnly ==
    []ReadOnlyDone /\ [][ReadOnlyStep]_vars

\* C24 witness: get_tasks has returned the views of two tasks, one of them
\* running with more current time than it has banked, while the file does
\* not hold the map.
C24_Witness ==
    \E t \in Threads :
        /\ Done(t) /\ th[t].op = "get_tasks" /\ th[t].res = Ok
        /\ Len(th[t].out) = 2
        /\ \E k \in DOMAIN tasks :
              /\ tasks[k].is_running
              /\ GetCurrentTime(tasks[k], now) > tasks[k].total_time
        /\ file # PersistedFile(tasks)

\* C25 as claimed: after a periodic save of the egui front end that wrote
\* the file, the total_time the file holds for every running task is its
\* current time at that save, in whole seconds: the banked time and the
\* time of the session in progress.
C25_PeriodicSaveCapturesRunning ==
    ( /\ Done(UiThread) /\ th[UiThread].op = "update"
      /\ faults = th[UiThread].pre.faults ) =>
        \A k \in DOMAIN tasks :
            tasks[k].is_running =>
                /\ file.kind = "json"
                /\ k \in DOMAIN file.map
                /\ file.map[k].total_time
                      = AsSecs(EguiGetCurrentTime(tasks[k], now))

\* the command of call c found a map that a failed save had left different
\* from the file
Diverged(c) ==
    /\ c.op \in MutatingOps
    /\ c.pre.faults > 0
    /\ c.pre.file # PersistedFile(c.pre.tasks)

\* C26: when a mutating command finds the map different from the file
\* after a failed save and returns Ok, the map is the whole map it found
\* with its own change, and the file is the persisted projection of that
\* map, the changes whose save had failed included; and add_task of a name
\* that an add whose save failed has left in the map and not in the file
\* returns the duplicate error and changes nothing.
C26_NextSaveRepairs ==
    \A t \in Threads :
        (Done(t) /\ Diverged(th[t])) =>
            /\ th[t].res = Ok =>
                  /\ tasks = Mutated(th[t])
                  /\ \A k \in DOMAIN th[t].pre.tasks \cap DOMAIN tasks :
                        /\ k \in DOMAIN file.map
                        /\ file.map[k] = PersistedProjection(tasks)[k]
                  /\ file = PersistedFile(tasks)
            /\ ( /\ th[t].op = "add_task"
                 /\ Trim(th[t].arg) \in DOMAIN th[t].pre.tasks
                 /\ Trim(th[t].arg) \notin DOMAIN th[t].pre.file.map ) =>
                    /\ th[t].res = ErrAlreadyExists
                    /\ tasks = th[t].pre.tasks
                    /\ file = th[t].pre.file

\* C26 witness: start_task returned Ok after the save of an add_task of
\* another name had failed: the task added, which was in the map and not
\* in the file, is now in the file with the task started.
C26_Witness ==
    \E t \in Threads, k \in DOMAIN tasks :
        /\ Done(t) /\ Diverged(th[t])
        /\ th[t].op = "start_task" /\ th[t].res = Ok
        /\ k # th[t].arg
        /\ th[t].pre.file.kind = "json"
        /\ k \in DOMAIN th[t].pre.tasks
        /\ k \notin DOMAIN th[t].pre.file.map
        /\ k \in DOMAIN file.map
        /\ th[t].arg \in DOMAIN file.map

\* the file is there and is as the process found it when it started, not
\* readable or not parsable: no write has reached it since
FoundUnparsable(f) == f.kind \in {"unreadable", "corrupt"}

\* thread t ends the write of the file of its command in this step
Writes(t) ==
    /\ th[t].pc = "write" /\ th'[t].pc = "done"
    /\ th[t].op \in MutatingOps

\* the process has started from a file that cannot be read or parsed: the
\* store is empty and the file is as it was
StartsEmpty ==
    \A t \in Threads :
        ( /\ Done(t) /\ th[t].op = "run"
          /\ th[t].pre.file.kind \in {"unreadable", "corrupt", "truncated"} ) =>
            /\ tasks = <<>>
            /\ file = th[t].pre.file

\* the store gets a key only from add_task of that name, or from the file
\* of a JSON map at the start of the process
KeysOnlyAdded ==
    \A k \in DOMAIN tasks' \ DOMAIN tasks :
        \/ \E t \in Threads :
              /\ Calls(t) /\ th'[t].op = "add_task" /\ Trim(th'[t].arg) = k
              /\ tasks'[k].created_at = now
        \/ /\ IsRestart
           /\ file.kind = "json"
           /\ k \in DOMAIN file.map

\* C27 as claimed: a file found unparsable at the start is changed only by
\* a mutating command that returns Ok, which leaves in it the persisted
\* projection of the map.
C27_Original ==
    [][ (FoundUnparsable(file) /\ file' # file) =>
            \E t \in Threads :
                /\ Writes(t)
                /\ th'[t].res = Ok
                /\ file' = PersistedFile(tasks') ]_vars

\* C27 as amended: when the file cannot be read or parsed at the start of
\* the process, the store starts empty and the start leaves the file as it
\* is; the file is then changed only by the write of a mutating command:
\* one that returns Ok leaves in it the persisted projection of the map,
\* and one whose write fails leaves it as it is or cut short, which cannot
\* be parsed either; the map gets its keys only from add_task in the
\* current process, never from that file.
C27_UnparsableFileKept ==
    /\ []StartsEmpty
    /\ [][ /\ (FoundUnparsable(file) /\ file' # file) =>
                \E t \in Threads :
                    /\ Writes(t)
                    /\ \/ /\ th'[t].res = Ok
                          /\ file' = PersistedFile(tasks')
                       \/ /\ th'[t].res = ErrWrite
                          /\ file' = FileTruncated
                          /\ LoadTasks(file') = <<>>
           /\ KeysOnlyAdded ]_vars

\* C27 witness: the process started from a file it could not parse; a first
\* add_task failed to save and left the file as it was, and a second one
\* has returned Ok: the file now holds the two tasks of this process.
C27_Witness ==
    \E t \in Threads :
        /\ Done(t) /\ th[t].op = "add_task" /\ th[t].res = Ok
        /\ th[t].pre.file.kind = "corrupt"
        /\ th[t].pre.tasks # <<>>
        /\ file.kind = "json"
        /\ DOMAIN file.map = DOMAIN tasks
        /\ Cardinality(DOMAIN tasks) = 2

====
